---- MODULE Spec2Model ----
(***************************************************************************)
(* Retirement portfolio simulator: the precondition validator              *)
(* (app/services/validation.py), the strategy engine                       *)
(* (app/services/strategy_engine.py) and the request pipeline              *)
(* (app/services/simulation_service.py, input_scenarios.py, routes.py).    *)
(*                                                                         *)
(* Monetary amounts, rates, weights and prices are exact rationals <<n,d>> *)
(* (d > 0, lowest terms); the model therefore states the arithmetic of the *)
(* code over the reals, not its binary rounding.  A calendar month is the  *)
(* integer 12*year + (month-1); a price series is a function from the      *)
(* months that have an entry to the closing price.                         *)
(***************************************************************************)
EXTENDS Integers, Sequences, FiniteSets, TLC

----------------------------------------------------------------------------
(* Exact rational arithmetic *)

Abs(x) == IF x < 0 THEN -x ELSE x

RECURSIVE GCD(_, _)
GCD(a, b) == IF b = 0 THEN a ELSE GCD(b, a % b)

RNorm(n, d) == LET g == GCD(Abs(n), d) IN <<n \div g, d \div g>>

R(n, d) == RNorm(n, d)

Zero == <<0, 1>>
One == <<1, 1>>

RAdd(a, b) ==
    LET g == GCD(a[2], b[2])
    IN  RNorm(a[1] * (b[2] \div g) + b[1] * (a[2] \div g), (a[2] \div g) * b[2])

RNeg(a) == <<-a[1], a[2]>>

RSub(a, b) == RAdd(a, RNeg(b))

RMul(a, b) ==
    LET g1 == GCD(Abs(a[1]), b[2])
        g2 == GCD(Abs(b[1]), a[2])
    IN  <<(a[1] \div g1) * (b[1] \div g2), (a[2] \div g2) * (b[2] \div g1)>>

RInv(a) == IF a[1] < 0 THEN <<-a[2], -a[1]>> ELSE <<a[2], a[1]>>

RDiv(a, b) == RMul(a, RInv(b))

RLt(a, b) == RSub(a, b)[1] < 0

RLe(a, b) == RSub(a, b)[1] <= 0

RAbs(a) == <<Abs(a[1]), a[2]>>

RECURSIVE RPow(_, _)
RPow(a, k) == IF k = 0 THEN One ELSE RMul(a, RPow(a, k - 1))

RECURSIVE RSumSeq(_)
RSumSeq(s) == IF s = <<>> THEN Zero ELSE RAdd(Head(s), RSumSeq(Tail(s)))

RECURSIVE RSumFun(_, _)
RSumFun(f, D) ==
    IF D = {} THEN Zero
    ELSE LET x == CHOOSE y \in D : TRUE IN RAdd(f[x], RSumFun(f, D \ {x}))

Max(S) == CHOOSE x \in S : \A y \in S : y <= x
Min(S) == CHOOSE x \in S : \A y \in S : x <= y

----------------------------------------------------------------------------
(* Calendar *)

MonthsPerYear == 12

Jan(year) == MonthsPerYear * year
Dec(year) == MonthsPerYear * year + (MonthsPerYear - 1)
YearOf(m) == m \div MonthsPerYear
MonthOf(m) == (m % MonthsPerYear) + 1

\* strftime('%Y-%m'): the label of a month, as the pair (year, month number)
YearMonth(m) == <<YearOf(m), MonthOf(m)>>

\* pd.date_range(start=start_year-01-01, end=end_year-12-31, freq='MS')
simulation_months(start_year, end_year) ==
    [k \in 1..(IF end_year >= start_year
               THEN MonthsPerYear * (end_year - start_year + 1) ELSE 0)
        |-> Jan(start_year) + (k - 1)]

----------------------------------------------------------------------------
(* Data model *)

\* Python's None for an absent weight; an absent 'name' or 'strategy_type'
NoWeight == <<>>
NoName == ""
NoStrategyType == ""

SingleFund == "Single Fund Strategy"
Rebalancing == "Rebalancing Strategy"

\* The fund catalog (name -> ticker), restricted to two of its nine funds
available_funds == ("Apple" :> "AAPL") @@ ("NASDAQ" :> "^IXIC")

\* A fetched entry: None (the download raised) or a DataFrame whose Close
\* column maps the months that have an entry to a price
NoneData == [kind |-> "None", Close |-> <<>>]
DataFrame(close) == [kind |-> "DataFrame", Close |-> close]

\* An error message: what it reports, about whom, with which value
Msg(kind, subject, value) == [kind |-> kind, subject |-> subject, value |-> value]

NoException == [type |-> "", scenario |-> 0, messages |-> <<>>]
Raise(type, msgs) == [type |-> type, scenario |-> 0, messages |-> msgs]

Kinds(msgs) == {msgs[k].kind : k \in DOMAIN msgs}

RECURSIVE Concat(_)
Concat(ss) == IF ss = <<>> THEN <<>> ELSE Head(ss) \o Concat(Tail(ss))

----------------------------------------------------------------------------
(* validation.py *)

RateInRange(rate) == RLe(Zero, rate) /\ RLe(rate, One)

\* (variant: the checks are chained, so only the first violation is kept)
validate_simulation_parameters_FirstOnly(start_year, end_year, annual_draw_rate, inflation_rate) ==
    IF start_year > end_year THEN <<Msg("start_after_end", "", Zero)>>
    ELSE IF ~RateInRange(annual_draw_rate) THEN <<Msg("draw_rate_range", "", annual_draw_rate)>>
    ELSE IF ~RateInRange(inflation_rate) THEN <<Msg("inflation_range", "", inflation_rate)>>
    ELSE <<>>

\* validate_simulation_parameters: the messages it collects (none: it returns)
validate_simulation_parameters(start_year, end_year, annual_draw_rate, inflation_rate) ==
    (IF start_year > end_year
     THEN <<Msg("start_after_end", "", Zero)>> ELSE <<>>)
    \o (IF ~RateInRange(annual_draw_rate)
        THEN <<Msg("draw_rate_range", "", annual_draw_rate)>> ELSE <<>>)
    \o (IF ~RateInRange(inflation_rate)
        THEN <<Msg("inflation_range", "", inflation_rate)>> ELSE <<>>)

\* (variant: the end of the range is not checked)
validate_single_fund_date_range_NoEndCheck(fund_data_df, requested_start_year, requested_end_year, fund_name) ==
    IF fund_data_df.kind = "None"
    THEN Raise("AttributeError", <<>>)
    ELSE IF DOMAIN fund_data_df.Close = {}
    THEN Raise("ValueError", <<Msg("no_data", fund_name, Zero)>>)
    ELSE IF Min(DOMAIN fund_data_df.Close) > Jan(requested_start_year)
    THEN Raise("ValueError", <<Msg("data_starts_late", fund_name, <<Min(DOMAIN fund_data_df.Close), 1>>)>>)
    ELSE NoException

\* validate_single_fund_date_range: the exception it raises (NoException: it
\* returns).  The requested end is January 1st of requested_end_year.
validate_single_fund_date_range(fund_data_df, requested_start_year, requested_end_year, fund_name) ==
    IF fund_data_df.kind = "None"
    THEN Raise("AttributeError", <<>>)
    ELSE IF DOMAIN fund_data_df.Close = {}
    THEN Raise("ValueError", <<Msg("no_data", fund_name, Zero)>>)
    ELSE
      LET actual_min_date == Min(DOMAIN fund_data_df.Close)
          actual_max_date == Max(DOMAIN fund_data_df.Close)
          requested_start_date_obj == Jan(requested_start_year)
          requested_end_date_obj == Jan(requested_end_year)
          error_messages ==
            (IF actual_min_date > requested_start_date_obj
             THEN <<Msg("data_starts_late", fund_name, <<actual_min_date, 1>>)>> ELSE <<>>)
            \o (IF actual_max_date < requested_end_date_obj
                THEN <<Msg("data_ends_early", fund_name, <<actual_max_date, 1>>)>> ELSE <<>>)
      IN  IF error_messages # <<>> THEN Raise("ValueError", error_messages) ELSE NoException

\* The digits of format(x, '.4f'): x >= 0 rounded to four decimals
RECURSIVE Digits(_, _, _, _)
Digits(acc, r, d, k) ==
    IF k = 0 THEN (IF 2 * r >= d THEN acc + 1 ELSE acc)
    ELSE Digits(acc * 10 + ((r * 10) \div d), (r * 10) % d, d, k - 1)

Format4f(x) == R(Digits(x[1] \div x[2], x[1] % x[2], x[2], 4), 10000)

\* The label fund.get('name', i+1) of a fund in a weight message
FundLabel(fund, k) == IF fund.name = NoName THEN ToString(k) ELSE fund.name

NameErrors(fund, k, strategy_type, fund_to_ticker, all_fetched_fund_data) ==
    IF fund.name = NoName
    THEN <<Msg("fund_missing_name", ToString(k), Zero)>>
    ELSE IF fund.name \notin DOMAIN fund_to_ticker
    THEN <<Msg("fund_not_found", fund.name, Zero)>>
    ELSE IF fund_to_ticker[fund.name] \notin DOMAIN all_fetched_fund_data
    THEN <<Msg("no_fetched_data", fund_to_ticker[fund.name], Zero)>>
    ELSE <<>>

WeightValid(weight) == weight # NoWeight /\ RLt(Zero, weight) /\ RLe(weight, One)

WeightErrors(fund, k) ==
    IF fund.weight = NoWeight
    THEN <<Msg("missing_weight", FundLabel(fund, k), Zero)>>
    ELSE IF ~(RLt(Zero, fund.weight) /\ RLe(fund.weight, One))
    THEN <<Msg("invalid_weight", FundLabel(fund, k), fund.weight)>>
    ELSE <<>>

\* the list `weights`: the individually valid weights, in order
ValidWeights(funds) ==
    Concat([k \in DOMAIN funds |->
              IF WeightValid(funds[k].weight) THEN <<funds[k].weight>> ELSE <<>>])

Tolerance == R(1, 1000000)

\* (variant: only a sum above 1 is rejected)
WeightSumOff_OneSided(weights) == RLt(Tolerance, RSub(RSumSeq(weights), One))

\* abs(sum(weights) - 1.0) > 1e-6
WeightSumOff(weights) == RLt(Tolerance, RAbs(RSub(RSumSeq(weights), One)))

\* validate_scenario: the messages it collects (none: it returns)
validate_scenario(scenario, fund_to_ticker, all_fetched_fund_data) ==
    LET strategy_type == scenario.strategy_type
        funds == scenario.funds
        weights == ValidWeights(funds)
    IN  (IF strategy_type = NoStrategyType
         THEN <<Msg("missing_strategy_type", "", Zero)>> ELSE <<>>)
        \o (IF funds = <<>>
            THEN <<Msg("no_funds", strategy_type, Zero)>> ELSE <<>>)
        \o Concat([k \in DOMAIN funds |->
                     NameErrors(funds[k], k, strategy_type, fund_to_ticker, all_fetched_fund_data)])
        \o (IF strategy_type = Rebalancing
            THEN (IF Len(funds) < 2
                  THEN <<Msg("rebalancing_min_funds", "", <<Len(funds), 1>>)>> ELSE <<>>)
                 \o Concat([k \in DOMAIN funds |-> WeightErrors(funds[k], k)])
                 \o (IF weights # <<>> /\ WeightSumOff(weights)
                     THEN <<Msg("weights_sum", "", Format4f(RSumSeq(weights)))>> ELSE <<>>)
            ELSE <<>>)
        \o (IF strategy_type = SingleFund /\ Len(funds) # 1
            THEN <<Msg("single_fund_count", "", <<Len(funds), 1>>)>> ELSE <<>>)

----------------------------------------------------------------------------
(* strategy_engine.py *)

\* (variant: a month without an entry takes the return of the entry before it)
monthly_return_at_ffill(close, month_start) ==
    LET upto == {k \in DOMAIN close : k <= month_start}
        last == Max(upto)
        earlier == {k \in DOMAIN close : k < last}
    IN  IF upto = {} \/ earlier = {} THEN Zero
        ELSE RSub(R(close[last], close[Max(earlier)]), One)

\* close.pct_change().get(month_start), with NaN (no entry at month_start, or
\* no earlier entry to compare with) replaced by 0.0
monthly_return_at(close, month_start) ==
    IF month_start \notin DOMAIN close THEN Zero
    ELSE LET earlier == {k \in DOMAIN close : k < month_start}
         IN  IF earlier = {} THEN Zero
             ELSE RSub(R(close[month_start], close[Max(earlier)]), One)

\* initial_corpus * annual_draw_rate * (1 + inflation_rate) ** (current_year - start_year)
inflation_adjusted_annual_draw(initial_corpus, annual_draw_rate, inflation_rate, current_year, start_year) ==
    RMul(RMul(initial_corpus, annual_draw_rate),
         RPow(RAdd(One, inflation_rate), current_year - start_year))

Row(month_start, starting, return, draw, after_growth, ending) ==
    [YearMonth |-> YearMonth(month_start),
     StartingCorpus |-> starting,
     MonthlyReturn |-> return,
     MonthlyDraw |-> draw,
     CorpusAfterGrowth |-> after_growth,
     EndingCorpus |-> ending]

\* The corpus a SingleFund month ends with (what current_corpus becomes)
SingleFundEndOfMonth(corpus_after_growth, monthly_draw) ==
    RSub(corpus_after_growth, monthly_draw)

\* (variant: the draw is not indexed to inflation)
SingleFundMonthlyDraw_NoInflation(p, current_year) ==
    RDiv(RMul(p.initial_corpus, p.annual_draw_rate), <<MonthsPerYear, 1>>)

\* The draw a SingleFund month reports and applies
SingleFundMonthlyDraw(p, current_year) ==
    RDiv(inflation_adjusted_annual_draw(p.initial_corpus, p.annual_draw_rate,
                                        p.inflation_rate, current_year, p.start_year),
         <<MonthsPerYear, 1>>)

\* (variant: the corpus is carried over before the draw is taken)
CarriedCorpus_BeforeDraw(row) == row.CorpusAfterGrowth

\* current_corpus = corpus_at_end_of_month: what the next month starts with
CarriedCorpus(row) == row.EndingCorpus

\* One iteration of SingleFundStrategy.simulate's loop: the row it appends
SingleFundMonth(current_corpus, month_start, close, p) ==
    LET monthly_return == monthly_return_at(close, month_start)
        corpus_at_start_of_month == current_corpus
        monthly_draw == SingleFundMonthlyDraw(p, YearOf(month_start))
        corpus_after_growth == RMul(corpus_at_start_of_month, RAdd(One, monthly_return))
        corpus_at_end_of_month == SingleFundEndOfMonth(corpus_after_growth, monthly_draw)
    IN  Row(month_start, corpus_at_start_of_month, monthly_return, monthly_draw,
            corpus_after_growth, corpus_at_end_of_month)

\* The last allocation of `funds` that carries `name`: a dict keyed by fund
\* name keeps the value written last
LastWithName(funds, name) == Max({k \in DOMAIN funds : funds[k].name = name})

FundNames(funds) == {funds[k].name : k \in DOMAIN funds}

\* holdings = {fund['name']: initial_corpus * fund['weight'] for fund in funds}
InitialHoldings(funds, initial_corpus) ==
    [n \in FundNames(funds) |-> RMul(initial_corpus, funds[LastWithName(funds, n)].weight)]

\* fund_monthly_returns[fund_name]: the Close series of the fund's ticker
FundClose(funds, name, all_fetched_fund_data) ==
    all_fetched_fund_data[funds[LastWithName(funds, name)].ticker].Close

\* The inner loop over funds, from allocation k on: each allocation grows the
\* holding stored under its name
RECURSIVE GrowHoldings(_, _, _, _, _)
GrowHoldings(st, funds, k, month_start, all_fetched_fund_data) ==
    IF k > Len(funds) THEN st
    ELSE LET fund_name == funds[k].name
             monthly_return == monthly_return_at(FundClose(funds, fund_name, all_fetched_fund_data), month_start)
             starting_holding == st.holdings[fund_name]
             ending_holding == RMul(starting_holding, RAdd(One, monthly_return))
         IN  GrowHoldings(
               [holdings |-> [st.holdings EXCEPT ![fund_name] = ending_holding],
                corpus_after_growth |-> RAdd(st.corpus_after_growth, ending_holding),
                weighted_return_numerator |->
                    RAdd(st.weighted_return_numerator, RMul(starting_holding, monthly_return))],
               funds, k + 1, month_start, all_fetched_fund_data)

\* The December loop: holdings[fund_name] = corpus_after_withdraw * fund['weight']
Rebalance(holdings, funds, corpus_after_withdraw) ==
    [n \in DOMAIN holdings |->
        IF n \in FundNames(funds)
        THEN RMul(corpus_after_withdraw, funds[LastWithName(funds, n)].weight)
        ELSE holdings[n]]

\* The draw a Rebalancing row reports: annual_draw / 12.0 in December, else 0.0
monthly_draw_reported(annual_draw, is_december) ==
    IF is_december THEN RDiv(annual_draw, <<MonthsPerYear, 1>>) ELSE Zero

\* One iteration of RebalancingStrategy.simulate's loop: the row it appends
\* and the holdings it leaves
RebalancingMonth(holdings, month_start, funds, all_fetched_fund_data, p) ==
    LET corpus_at_start_of_month == RSumFun(holdings, DOMAIN holdings)
        grown == GrowHoldings([holdings |-> holdings, corpus_after_growth |-> Zero,
                               weighted_return_numerator |-> Zero],
                              funds, 1, month_start, all_fetched_fund_data)
        corpus_after_growth == grown.corpus_after_growth
        monthly_return_portfolio ==
            IF corpus_at_start_of_month # Zero
            THEN RDiv(grown.weighted_return_numerator, corpus_at_start_of_month)
            ELSE Zero
        is_december == (MonthOf(month_start) = MonthsPerYear)
        base_annual_draw == RMul(p.initial_corpus, p.annual_draw_rate)
        annual_draw == RMul(base_annual_draw,
                            RPow(RAdd(One, p.inflation_rate), YearOf(month_start) - p.start_year))
        corpus_after_withdraw == RSub(corpus_after_growth, annual_draw)
        new_holdings == IF is_december
                        THEN Rebalance(grown.holdings, funds, corpus_after_withdraw)
                        ELSE grown.holdings
        corpus_at_end_of_month == RSumFun(new_holdings, DOMAIN new_holdings)
    IN  [row |-> Row(month_start, corpus_at_start_of_month, monthly_return_portfolio,
                     monthly_draw_reported(annual_draw, is_december),
                     corpus_after_growth, corpus_at_end_of_month),
         holdings |-> new_holdings]

\* SingleFundStrategy.simulate as a whole: the rows of the months ms, the
\* corpus being carried from each row to the next
RECURSIVE SingleFundRows(_, _, _, _)
SingleFundRows(corpus, ms, close, p) ==
    IF ms = <<>>
    THEN <<>>
    ELSE LET row == SingleFundMonth(corpus, Head(ms), close, p)
         IN  <<row>> \o SingleFundRows(CarriedCorpus(row), Tail(ms), close, p)

\* RebalancingStrategy.simulate as a whole
RECURSIVE RebalancingRows(_, _, _, _, _)
RebalancingRows(hold, ms, funds, all_fetched_fund_data, p) ==
    IF ms = <<>>
    THEN <<>>
    ELSE LET step == RebalancingMonth(hold, Head(ms), funds, all_fetched_fund_data, p)
         IN  <<step.row>> \o RebalancingRows(step.holdings, Tail(ms), funds, all_fetched_fund_data, p)

\* strategy_class().simulate(input=scenario, ...): the result sequence of
\* one scenario, from that scenario, the fetched data and the parameters
simulate(input, all_fetched_fund_data, p) ==
    LET ms == simulation_months(p.start_year, p.end_year)
    IN  IF input.strategy_type = SingleFund
        THEN SingleFundRows(p.initial_corpus, ms,
                            all_fetched_fund_data[input.funds[1].ticker].Close, p)
        ELSE RebalancingRows(InitialHoldings(input.funds, p.initial_corpus), ms,
                             input.funds, all_fetched_fund_data, p)

\* strategy_map.get(strategy_type) is not None
KnownStrategy(strategy_type) == strategy_type \in {SingleFund, Rebalancing}

\* (variant: the label leaves the position out)
scenario_name_TypeOnly(k, scenario) == <<1, scenario.strategy_type>>

\* f"Scenario {i+1}: {scenario['strategy_type']}", i+1 being the position k
scenario_name(k, scenario) == <<k, scenario.strategy_type>>

----------------------------------------------------------------------------
(* State *)

VARIABLES
    params,                     \* start_year, end_year, annual_draw_rate, inflation_rate, initial_corpus
    simulation_scenarios,       \* the payload's scenarios; prepare adds each fund's ticker
    fund_to_ticker,             \* the catalog lookup built by prepare_simulation_inputs
    all_fetched_fund_data,      \* ticker -> fetched entry
    pc,                         \* where the request is
    i,                          \* the scenario a loop is at (1-based)
    j,                          \* the fund the date-coverage loop is at (1-based)
    exception,                  \* the exception that ended the request, if any
    validated_funds,            \* run_all_validations' set of fund names already covered
    date_checks,                \* calls of validate_single_fund_date_range, per fund name
    rows,                       \* simulation_results of the running simulate call
    current_corpus,             \* SingleFundStrategy's running corpus
    holdings,                   \* RebalancingStrategy's holdings, keyed by fund name
    holdings_at_month_start,    \* holdings as they were when the last row's month began
    simulation_outputs_to_plot  \* scenario label -> result sequence

vars == <<params, simulation_scenarios, fund_to_ticker, all_fetched_fund_data, pc, i, j,
          exception, validated_funds, date_checks, rows, current_corpus, holdings,
          holdings_at_month_start, simulation_outputs_to_plot>>

inputs == <<params, simulation_scenarios, fund_to_ticker, all_fetched_fund_data>>
validation_state == <<validated_funds, date_checks>>
engine_state == <<rows, current_corpus, holdings, holdings_at_month_start,
                  simulation_outputs_to_plot>>

NoFunction == <<>>

Range(f) == {f[x] : x \in DOMAIN f}

scenario == simulation_scenarios[i]
months == simulation_months(params.start_year, params.end_year)

----------------------------------------------------------------------------
(* input_scenarios.py, data_fetcher.py *)

Resolvable(fund) == fund.name # NoName /\ fund.name \in DOMAIN available_funds

\* The positions (scenario, fund) whose lookup fund_to_ticker[fund_name] raises
Unresolvable(scenarios) ==
    UNION {{<<a, b>> : b \in {c \in DOMAIN scenarios[a].funds : ~Resolvable(scenarios[a].funds[c])}} :
             a \in DOMAIN scenarios}

Before(x, y) == x[1] < y[1] \/ (x[1] = y[1] /\ x[2] < y[2])

\* The enrichment loop: every fund before position `stop` gets its ticker
Enrich(scenarios, stop) ==
    [a \in DOMAIN scenarios |->
        [scenarios[a] EXCEPT !.funds =
            [b \in DOMAIN scenarios[a].funds |->
                IF Before(<<a, b>>, stop)
                THEN [scenarios[a].funds[b] EXCEPT !.ticker = available_funds[scenarios[a].funds[b].name]]
                ELSE scenarios[a].funds[b]]]]

PastEnd(scenarios) == <<Len(scenarios) + 1, 1>>

\* prepare_simulation_inputs: resolves every fund's ticker in place; the
\* first name the catalog lacks raises KeyError
PrepareSimulationInputs ==
    /\ pc = "prepare"
    /\ LET bad == Unresolvable(simulation_scenarios)
       IN  IF bad # {}
           THEN LET first == CHOOSE x \in bad : \A y \in bad : x = y \/ Before(x, y)
                IN  /\ simulation_scenarios' = Enrich(simulation_scenarios, first)
                    /\ exception' = Raise("KeyError", <<>>)
                    /\ pc' = "raised"
                    /\ UNCHANGED fund_to_ticker
           ELSE /\ simulation_scenarios' = Enrich(simulation_scenarios, PastEnd(simulation_scenarios))
                /\ fund_to_ticker' = available_funds
                /\ pc' = "fetch"
                /\ UNCHANGED exception
    /\ UNCHANGED <<params, all_fetched_fund_data, i, j, validation_state, engine_state>>

\* What yf.download may leave for a ticker: None when it raised, else a DataFrame
FetchResults(series) == {NoneData} \cup {DataFrame(c) : c \in series}

\* fetch_historical_data: one entry per distinct ticker of the catalog
FetchHistoricalData(series) ==
    /\ pc = "fetch"
    /\ \E data \in [Range(fund_to_ticker) -> FetchResults(series)] :
          all_fetched_fund_data' = data
    /\ pc' = "validate_parameters"
    /\ UNCHANGED <<params, simulation_scenarios, fund_to_ticker, i, j, exception,
                   validation_state, engine_state>>

----------------------------------------------------------------------------
(* validation.py: run_all_validations, one step per check *)

\* (variant: parameter violations do not stop the run)
ValidateParameters_NoAbort ==
    /\ pc = "validate_parameters"
    /\ pc' = "validate_scenarios"
    /\ i' = 1
    /\ UNCHANGED <<inputs, j, exception, validation_state, engine_state>>

\* validate_simulation_parameters(...) as called by run_all_validations
ValidateParameters ==
    /\ pc = "validate_parameters"
    /\ LET error_messages == validate_simulation_parameters(
               params.start_year, params.end_year, params.annual_draw_rate, params.inflation_rate)
       IN  IF error_messages # <<>>
           THEN /\ exception' = Raise("ValueError", error_messages)
                /\ pc' = "raised"
                /\ UNCHANGED i
           ELSE /\ pc' = "validate_scenarios"
                /\ i' = 1
                /\ UNCHANGED exception
    /\ UNCHANGED <<inputs, j, validation_state, engine_state>>

\* One iteration of the loop over scenarios: a failure is re-raised with the
\* prefix "Scenario {i+1} validation failed", i+1 being the position i here
ValidateScenario ==
    /\ pc = "validate_scenarios"
    /\ LET error_messages == validate_scenario(scenario, fund_to_ticker, all_fetched_fund_data)
       IN  IF error_messages # <<>>
           THEN /\ exception' = [type |-> "ValueError", scenario |-> i, messages |-> error_messages]
                /\ pc' = "raised"
                /\ UNCHANGED <<i, j, validated_funds>>
           ELSE IF i < Len(simulation_scenarios)
           THEN /\ i' = i + 1
                /\ UNCHANGED <<pc, j, exception, validated_funds>>
           ELSE /\ pc' = "validate_dates"
                /\ i' = 1
                /\ j' = 1
                /\ validated_funds' = {}
                /\ UNCHANGED exception
    /\ UNCHANGED <<inputs, date_checks, engine_state>>

\* The date-coverage loops move on to the next fund, or return
NextFund ==
    IF j < Len(scenario.funds)
    THEN /\ j' = j + 1
         /\ UNCHANGED <<pc, i>>
    ELSE IF i < Len(simulation_scenarios)
    THEN /\ i' = i + 1
         /\ j' = 1
         /\ UNCHANGED pc
    ELSE /\ pc' = "validated"
         /\ UNCHANGED <<i, j>>

\* One iteration of the loop over every fund of every scenario
ValidateDateRange ==
    /\ pc = "validate_dates"
    /\ LET fund_name == scenario.funds[j].name
           ticker == fund_to_ticker[fund_name]
           raised == validate_single_fund_date_range(
                         all_fetched_fund_data[ticker], params.start_year, params.end_year, fund_name)
       IN  IF fund_name \in validated_funds
           THEN /\ NextFund
                /\ UNCHANGED <<exception, validation_state>>
           ELSE /\ date_checks' = [date_checks EXCEPT ![fund_name] = @ + 1]
                /\ IF raised # NoException
                   THEN /\ exception' = raised
                        /\ pc' = "raised"
                        /\ UNCHANGED <<i, j, validated_funds>>
                   ELSE /\ validated_funds' = validated_funds \cup {fund_name}
                        /\ NextFund
                        /\ UNCHANGED exception
    /\ UNCHANGED <<inputs, engine_state>>

----------------------------------------------------------------------------
(* simulation_service.py, strategy_engine.py: run_strategy_simulations *)

\* run_simulation goes on to the engine once run_all_validations has returned
RunStrategySimulations ==
    /\ pc = "validated"
    /\ pc' = "simulate"
    /\ i' = 1
    /\ simulation_outputs_to_plot' = NoFunction
    /\ UNCHANGED <<inputs, j, exception, validation_state, rows, current_corpus,
                   holdings, holdings_at_month_start>>

\* The loop over scenarios moves on, or run_strategy_simulations returns
NextScenario ==
    IF i < Len(simulation_scenarios)
    THEN /\ i' = i + 1
         /\ pc' = "simulate"
    ELSE /\ pc' = "simulated"
         /\ UNCHANGED i

\* An unknown strategy type: the scenario is skipped
SkipScenario ==
    /\ pc = "simulate"
    /\ ~KnownStrategy(scenario.strategy_type)
    /\ NextScenario
    /\ UNCHANGED <<inputs, j, exception, validation_state, engine_state>>

\* simulate() up to its month loop
StartSimulation ==
    /\ pc = "simulate"
    /\ KnownStrategy(scenario.strategy_type)
    /\ rows' = <<>>
    /\ IF scenario.strategy_type = SingleFund
       THEN /\ current_corpus' = params.initial_corpus
            /\ holdings' = NoFunction
       ELSE /\ holdings' = InitialHoldings(scenario.funds, params.initial_corpus)
            /\ current_corpus' = Zero
    /\ holdings_at_month_start' = holdings'
    /\ pc' = "simulating"
    /\ UNCHANGED <<inputs, i, j, exception, validation_state, simulation_outputs_to_plot>>

\* One iteration of simulate()'s loop over simulation_months
SimulateMonth ==
    /\ pc = "simulating"
    /\ Len(rows) < Len(months)
    /\ LET month_start == months[Len(rows) + 1]
       IN  IF scenario.strategy_type = SingleFund
           THEN LET row == SingleFundMonth(
                               current_corpus, month_start,
                               all_fetched_fund_data[scenario.funds[1].ticker].Close, params)
                IN  /\ rows' = Append(rows, row)
                    /\ current_corpus' = CarriedCorpus(row)
                    /\ UNCHANGED <<holdings, holdings_at_month_start>>
           ELSE LET step == RebalancingMonth(holdings, month_start, scenario.funds,
                                             all_fetched_fund_data, params)
                IN  /\ rows' = Append(rows, step.row)
                    /\ holdings' = step.holdings
                    /\ holdings_at_month_start' = holdings
                    /\ UNCHANGED current_corpus
    /\ UNCHANGED <<inputs, pc, i, j, exception, validation_state, simulation_outputs_to_plot>>

\* simulate() returns; the result is stored under the scenario's label
FinishSimulation ==
    /\ pc = "simulating"
    /\ Len(rows) = Len(months)
    /\ simulation_outputs_to_plot' =
          (scenario_name(i, scenario) :> rows) @@ simulation_outputs_to_plot
    /\ NextScenario
    /\ UNCHANGED <<inputs, j, exception, validation_state, rows, current_corpus,
                   holdings, holdings_at_month_start>>

----------------------------------------------------------------------------
(* Bounds and input sets *)

FirstYear == 2020
MaxYears == 2
MaxScenarios == 2
MaxFunds == 2

LastYear == FirstYear + MaxYears - 1
Years == FirstYear..LastYear

SeqsUpTo(S, lo, hi) == UNION {[1..n -> S] : n \in lo..hi}

Params(start_years, end_years, draw_rates, inflation_rates) ==
    [start_year : start_years, end_year : end_years, annual_draw_rate : draw_rates,
     inflation_rate : inflation_rates, initial_corpus : {R(1200, 1)}]

\* Price series: `shape` gives the prices, first..last the months with an
\* entry, gaps the months in between without one
Shapes == {"flat", "zig"}
Price(shape, m) == IF shape = "flat" THEN 2 ELSE IF m % 2 = 0 THEN 1 ELSE 2
Series(shape, first, last, gaps) ==
    [m \in (first..last) \ gaps |-> Price(shape, m)]
NoGap == {}
OneGap == {Jan(FirstYear) + 3}

Allocation(name, weight) == [name |-> name, weight |-> weight, ticker |-> ""]
Resolved(fund) == [fund EXCEPT !.ticker = available_funds[fund.name]]

ReferencedTickers(funds) == {funds[k].ticker : k \in DOMAIN funds}

\* --- the request pipeline: payloads of run_simulation
PipelineParams ==
    Params(Years, Years, {R(1, 2), R(3, 2)}, {R(1, 10), R(-1, 10)})

\* the catalog's funds in catalog order, each with weight 1/2; or one fund
\* the catalog does not know
PipelineFundLists ==
    {<<>>, <<Allocation("Gold ETF", NoWeight)>>}
    \cup {<<Allocation("Apple", R(1, 2))>>}
    \cup {fs \in SeqsUpTo({Allocation("Apple", R(1, 2)), Allocation("NASDAQ", R(1, 2))}, 2, MaxFunds) :
            \A k \in DOMAIN fs : fs[k].name = (IF k % 2 = 1 THEN "Apple" ELSE "NASDAQ")}

PipelineScenarios ==
    [strategy_type : {SingleFund, Rebalancing, "Momentum Strategy", NoStrategyType},
     funds : PipelineFundLists]

PipelineSeries ==
    {Series("zig", Jan(FirstYear), Dec(LastYear), OneGap),
     Series("flat", Jan(FirstYear) + 1, Jan(LastYear) - 1, NoGap)}

\* --- direct calls of run_strategy_simulations with one accepted scenario
EngineParams ==
    {p \in Params(Years, Years, {Zero, R(1, 2), One}, {R(1, 10)}) :
        validate_simulation_parameters(p.start_year, p.end_year,
                                       p.annual_draw_rate, p.inflation_rate) = <<>>}

EngineWeights == {R(1, 5), R(3, 10), R(1, 2), R(7, 10)}

EngineAllocations ==
    {Resolved(Allocation(n, w)) : n \in DOMAIN available_funds, w \in EngineWeights \cup {NoWeight}}

AllPresent == [t \in Range(available_funds) |-> DataFrame(<<>>)]

EngineScenarios ==
    {s \in [strategy_type : {SingleFund, Rebalancing}, funds : SeqsUpTo(EngineAllocations, 1, MaxFunds)] :
        /\ validate_scenario(s, available_funds, AllPresent) = <<>>
        /\ s.strategy_type = SingleFund => s.funds[1].weight = NoWeight}

EngineSeries ==
    {Series(sh, Jan(FirstYear), Dec(LastYear), gaps) : sh \in Shapes, gaps \in {NoGap, OneGap}}
    \cup {Series("zig", Jan(FirstYear), Jan(LastYear), NoGap), <<>>}

----------------------------------------------------------------------------
(* Specifications *)

Idle ==
    /\ i = 1
    /\ j = 1
    /\ exception = NoException
    /\ validated_funds = {}
    /\ date_checks = [n \in DOMAIN available_funds |-> 0]
    /\ rows = <<>>
    /\ current_corpus = Zero
    /\ holdings = NoFunction
    /\ holdings_at_month_start = NoFunction
    /\ simulation_outputs_to_plot = NoFunction

\* A request arrives at run_simulation
Init ==
    /\ pc = "prepare"
    /\ params \in PipelineParams
    /\ simulation_scenarios \in SeqsUpTo(PipelineScenarios, 1, MaxScenarios)
    /\ fund_to_ticker = NoFunction
    /\ all_fetched_fund_data = NoFunction
    /\ Idle

Next ==
    \/ PrepareSimulationInputs
    \/ FetchHistoricalData(PipelineSeries)
    \/ ValidateParameters
    \/ ValidateScenario
    \/ ValidateDateRange
    \/ RunStrategySimulations
    \/ SkipScenario
    \/ StartSimulation
    \/ SimulateMonth
    \/ FinishSimulation

Spec == Init /\ [][Next]_vars

\* run_strategy_simulations is called with one scenario validate_scenario
\* accepts, valid parameters and any price series for the tickers it names
InitEngine ==
    /\ pc = "simulate"
    /\ params \in EngineParams
    /\ simulation_scenarios \in {<<s>> : s \in EngineScenarios}
    /\ fund_to_ticker = available_funds
    /\ all_fetched_fund_data \in
          [ReferencedTickers(simulation_scenarios[1].funds) -> {DataFrame(c) : c \in EngineSeries}]
    /\ Idle

NextEngine ==
    \/ StartSimulation
    \/ SimulateMonth
    \/ FinishSimulation

SpecEngine == InitEngine /\ [][NextEngine]_vars

\* --- direct calls of run_all_validations
WideWeights ==
    {NoWeight, Zero, R(3, 10), R(1, 2), R(3, 5), One, R(3, 2),
     R(1000001, 2000000), R(250001, 500000)}

WideAllocations ==
    {Allocation(n, w) : n \in {"Apple", "NASDAQ", "Gold ETF", NoName}, w \in WideWeights}

WideScenarios ==
    [strategy_type : {SingleFund, Rebalancing, "Momentum Strategy", NoStrategyType},
     funds : SeqsUpTo(WideAllocations, 0, MaxFunds)]

DateSeries ==
    {Series("flat", first, last, gaps) :
        first \in {Jan(y) : y \in Years} \cup {Jan(y) + 1 : y \in Years},
        last \in {Jan(y) - 1 : y \in Years} \cup {Jan(y) : y \in Years} \cup {Dec(y) : y \in Years},
        gaps \in {NoGap, OneGap}}

Covering == DataFrame(Series("flat", Jan(FirstYear), Dec(LastYear), NoGap))

\* any one scenario, with data fetched for Apple's ticker only
OneScenario ==
    /\ params \in Params({FirstYear}, {FirstYear}, {R(1, 2)}, {R(1, 10)})
    /\ simulation_scenarios \in {<<s>> : s \in WideScenarios}
    /\ all_fetched_fund_data = ("AAPL" :> Covering)

\* one accepted scenario, any requested range and any data for its fund
OneSeries ==
    /\ params \in {p \in Params(Years, Years, {R(1, 2)}, {R(1, 10)}) : p.start_year <= p.end_year}
    /\ simulation_scenarios = <<[strategy_type |-> SingleFund, funds |-> <<Allocation("Apple", NoWeight)>>]>>
    /\ all_fetched_fund_data \in [{"AAPL"} -> FetchResults(DateSeries)]

InitValidate ==
    /\ pc = "validate_parameters"
    /\ fund_to_ticker = available_funds
    /\ OneScenario \/ OneSeries
    /\ Idle

NextValidate ==
    \/ ValidateParameters
    \/ ValidateScenario
    \/ ValidateDateRange

SpecValidate == InitValidate /\ [][NextValidate]_vars

----------------------------------------------------------------------------
(* Claims about the strategy engine (SpecEngine) *)

InSimulate(strategy_type) ==
    pc \in {"simulating", "simulated"} /\ scenario.strategy_type = strategy_type

LastRow == rows[Len(rows)]

\* the calendar month row m stands for, counted from the requested start
RowMonth(m) == MonthsPerYear * params.start_year + (m - 1)
RowYear(m) == params.start_year + ((m - 1) \div MonthsPerYear)
IsDecemberRow(m) == m % MonthsPerYear = 0

CloseOf(k) == all_fetched_fund_data[scenario.funds[k].ticker].Close
HasEntry(k, m) == RowMonth(m) \in DOMAIN CloseOf(k)

DistinctNames(funds) ==
    \A a, b \in DOMAIN funds : a # b => funds[a].name # funds[b].name

\* initial_corpus x annual_draw_rate x (1 + inflation_rate)^(year - start_year)
AnnualDrawOf(year) ==
    RMul(RMul(params.initial_corpus, params.annual_draw_rate),
         RPow(RAdd(One, params.inflation_rate), year - params.start_year))

\* C1: in the result sequence of either variant, every row starts with the
\* corpus the row before it ended with, whatever the price series and also
\* when the corpus is negative.
C1_CorpusCarriesOver ==
    \A m \in 1..(Len(rows) - 1) : rows[m + 1].StartingCorpus = rows[m].EndingCorpus

\* C1 witness: a SingleFund run over a series with a gap, two rows past a
\* month that ended with a negative corpus.
C1_Witness ==
    /\ InSimulate(SingleFund)
    /\ \E m \in 1..(Len(rows) - 1) : rows[m].EndingCorpus[1] < 0
    /\ \E m \in DOMAIN rows : ~HasEntry(1, m) /\ \E n \in DOMAIN rows : n > m /\ HasEntry(1, n)

\* C2 (as claimed): the reported monthly_draw is what the month withdrew,
\* ending_corpus = corpus_after_growth - monthly_draw in every row of either
\* variant.  Stated here for scenarios whose fund names are distinct (all
\* weights of an accepted Rebalancing scenario sum to exactly 1 under
\* SpecEngine's inputs).
C2_DrawIsWithdrawn ==
    (pc \in {"simulating", "simulated"} /\ DistinctNames(scenario.funds)) =>
        \A m \in DOMAIN rows :
            rows[m].EndingCorpus = RSub(rows[m].CorpusAfterGrowth, rows[m].MonthlyDraw)

\* C3 (as claimed): in a non-December month of an accepted Rebalancing
\* scenario nothing is withdrawn or rebalanced: monthly_draw is 0, every
\* allocation's holding is its holding at month start times (1 + its fund's
\* return), and ending_corpus equals corpus_after_growth.
C3_NonDecemberDrift ==
    (pc = "simulating" /\ scenario.strategy_type = Rebalancing
        /\ rows # <<>> /\ ~IsDecemberRow(Len(rows))) =>
        /\ LastRow.MonthlyDraw = Zero
        /\ \A k \in DOMAIN scenario.funds :
              holdings[scenario.funds[k].name] =
                  RMul(holdings_at_month_start[scenario.funds[k].name],
                       RAdd(One, monthly_return_at(CloseOf(k), RowMonth(Len(rows)))))
        /\ LastRow.EndingCorpus = LastRow.CorpusAfterGrowth

\* C4 (as claimed): right after a December row of an accepted Rebalancing
\* scenario every allocation f holds weight_f x (corpus_after_growth -
\* annual_draw(year)), and ending_corpus is corpus_after_growth -
\* annual_draw(year).
C4_DecemberRebalance ==
    (pc = "simulating" /\ scenario.strategy_type = Rebalancing
        /\ rows # <<>> /\ IsDecemberRow(Len(rows))) =>
        LET remainder == RSub(LastRow.CorpusAfterGrowth, AnnualDrawOf(RowYear(Len(rows))))
        IN  /\ \A k \in DOMAIN scenario.funds :
                  holdings[scenario.funds[k].name] = RMul(scenario.funds[k].weight, remainder)
            /\ LastRow.EndingCorpus = remainder

\* C5: every SingleFund row of calendar year y reports and applies the draw
\* initial_corpus x annual_draw_rate x (1 + inflation_rate)^(y - start_year) / 12,
\* which depends on the parameters alone (so it is the same for every price
\* series); with draw rate 0 and zero returns so far the corpus stays at
\* initial_corpus.
C5_SingleFundDrawSchedule ==
    InSimulate(SingleFund) =>
        \A m \in DOMAIN rows :
            /\ rows[m].MonthlyDraw = RDiv(AnnualDrawOf(RowYear(m)), <<MonthsPerYear, 1>>)
            /\ rows[m].EndingCorpus = RSub(rows[m].CorpusAfterGrowth, rows[m].MonthlyDraw)
            /\ (params.annual_draw_rate = Zero /\ \A n \in 1..m : rows[n].MonthlyReturn = Zero)
                  => rows[m].EndingCorpus = params.initial_corpus

\* C5 witness: a SingleFund run with a positive draw rate has reached its
\* second calendar year over a series with non-zero returns.
C5_Witness ==
    /\ InSimulate(SingleFund)
    /\ Len(rows) > MonthsPerYear
    /\ params.annual_draw_rate # Zero
    /\ LastRow.MonthlyDraw # rows[1].MonthlyDraw
    /\ \E m \in DOMAIN rows : rows[m].MonthlyReturn # Zero

ExpectedRows == MonthsPerYear * (params.end_year - params.start_year + 1)

\* C6: either variant produces one row per calendar month from start_year-01
\* to end_year-12, in order, 12 x (end_year - start_year + 1) in all; a month
\* a fund's series has no entry for counts as a return of 0.0 for that fund
\* (it is neither skipped nor shifted), and the run goes on after the corpus
\* has reached zero or less.
C6_EveryMonthHasARow ==
    (pc \in {"simulating", "simulated"}) =>
        /\ Len(rows) <= ExpectedRows
        /\ \A m \in DOMAIN rows :
              rows[m].YearMonth = <<RowYear(m), ((m - 1) % MonthsPerYear) + 1>>
        /\ pc = "simulated" =>
              /\ Len(rows) = ExpectedRows
              /\ \A label \in DOMAIN simulation_outputs_to_plot :
                    Len(simulation_outputs_to_plot[label]) = ExpectedRows
        /\ scenario.strategy_type = SingleFund =>
              \A m \in DOMAIN rows : ~HasEntry(1, m) => rows[m].MonthlyReturn = Zero
        /\ scenario.strategy_type = Rebalancing =>
              /\ \A m \in DOMAIN rows :
                    (\A k \in DOMAIN scenario.funds : ~HasEntry(k, m)) => rows[m].MonthlyReturn = Zero
              /\ (rows # <<>> /\ ~IsDecemberRow(Len(rows))) =>
                    \A k \in DOMAIN scenario.funds :
                        ~HasEntry(k, Len(rows)) =>
                            holdings[scenario.funds[k].name] =
                                holdings_at_month_start[scenario.funds[k].name]

\* C6 witness: a finished two-year run whose series lacks a month between
\* two entries and whose corpus was zero or less before the last month.
C6_Witness ==
    /\ pc = "simulated"
    /\ Len(rows) = 2 * MonthsPerYear
    /\ \E m \in 1..(Len(rows) - 1) : rows[m].EndingCorpus[1] <= 0
    /\ \E m \in DOMAIN rows : ~HasEntry(1, m) /\ \E n \in DOMAIN rows : n > m /\ HasEntry(1, n)

----------------------------------------------------------------------------
(* Claims about the validator (SpecValidate, Spec) *)

InUnit(x) == RLt(Zero, x) /\ RLe(x, One)

AllWeightsValid(funds) ==
    \A k \in DOMAIN funds : funds[k].weight # NoWeight /\ InUnit(funds[k].weight)

SumOfWeights(funds) ==
    RSumSeq([k \in DOMAIN funds |-> IF funds[k].weight = NoWeight THEN Zero ELSE funds[k].weight])

WithinTolerance(x) == RLe(RAbs(RSub(x, One)), R(1, 1000000))

ScenarioChecked(a) ==
    \/ pc \in {"validate_dates", "validated", "simulate", "simulating", "simulated"}
    \/ pc = "validate_scenarios" /\ i > a
    \/ pc = "raised" /\ exception.scenario = a

RejectedAt(a) ==
    pc = "raised" /\ exception.type = "ValueError" /\ exception.scenario = a

C7_State ==
    \A a \in DOMAIN simulation_scenarios :
        LET funds == simulation_scenarios[a].funds
        IN  (ScenarioChecked(a) /\ simulation_scenarios[a].strategy_type = Rebalancing) =>
              /\ (~AllWeightsValid(funds) \/ ~WithinTolerance(SumOfWeights(funds))) => RejectedAt(a)
              /\ (funds # <<>> /\ AllWeightsValid(funds) /\ ~WithinTolerance(SumOfWeights(funds))) =>
                    \E k \in DOMAIN exception.messages :
                        /\ exception.messages[k].kind = "weights_sum"
                        /\ RLe(RAbs(RSub(exception.messages[k].value, SumOfWeights(funds))),
                               R(1, 20000))

\* C7: validate_scenario fails for every Rebalancing scenario whose weights
\* do not sum to 1 within 1e-6, also when some weight is missing or out of
\* range; when the scenario has funds and every weight is valid the failure
\* cites the sum (to four decimals); the validator never changes the
\* scenarios.
C7_WeightSumEnforced ==
    [](C7_State) /\ [][simulation_scenarios' = simulation_scenarios]_vars

\* C7 witness: two funds weighted [0.5, 0.6] were rejected with a message
\* citing 1.1.
C7_Witness ==
    /\ RejectedAt(1)
    /\ simulation_scenarios[1].strategy_type = Rebalancing
    /\ Len(simulation_scenarios[1].funds) = 2
    /\ simulation_scenarios[1].funds[1].weight = R(1, 2)
    /\ simulation_scenarios[1].funds[2].weight = R(3, 5)
    /\ \E k \in DOMAIN exception.messages :
          exception.messages[k].kind = "weights_sum" /\ exception.messages[k].value = R(11, 10)

\* --- what is wrong with the inputs, stated from the rules themselves
ParamViolations ==
    (IF params.start_year > params.end_year THEN {"start_after_end"} ELSE {})
    \cup (IF RLt(params.annual_draw_rate, Zero) \/ RLt(One, params.annual_draw_rate)
          THEN {"draw_rate_range"} ELSE {})
    \cup (IF RLt(params.inflation_rate, Zero) \/ RLt(One, params.inflation_rate)
          THEN {"inflation_range"} ELSE {})

ScenarioViolations(s) ==
    LET funds == s.funds
        valid == {k \in DOMAIN funds : funds[k].weight # NoWeight /\ InUnit(funds[k].weight)}
        total == RSumSeq([k \in DOMAIN funds |-> IF k \in valid THEN funds[k].weight ELSE Zero])
    IN  (IF s.strategy_type = NoStrategyType THEN {"missing_strategy_type"} ELSE {})
        \cup (IF Len(funds) = 0 THEN {"no_funds"} ELSE {})
        \cup (IF \E k \in DOMAIN funds : funds[k].name = NoName THEN {"fund_missing_name"} ELSE {})
        \cup (IF \E k \in DOMAIN funds :
                    funds[k].name # NoName /\ funds[k].name \notin DOMAIN available_funds
              THEN {"fund_not_found"} ELSE {})
        \cup (IF \E k \in DOMAIN funds :
                    /\ funds[k].name \in DOMAIN available_funds
                    /\ available_funds[funds[k].name] \notin DOMAIN all_fetched_fund_data
              THEN {"no_fetched_data"} ELSE {})
        \cup (IF s.strategy_type = Rebalancing
              THEN (IF Len(funds) < 2 THEN {"rebalancing_min_funds"} ELSE {})
                   \cup (IF \E k \in DOMAIN funds : funds[k].weight = NoWeight
                         THEN {"missing_weight"} ELSE {})
                   \cup (IF \E k \in DOMAIN funds :
                               funds[k].weight # NoWeight /\ ~InUnit(funds[k].weight)
                         THEN {"invalid_weight"} ELSE {})
                   \cup (IF valid # {} /\ ~WithinTolerance(total) THEN {"weights_sum"} ELSE {})
              ELSE {})
        \cup (IF s.strategy_type = SingleFund /\ Len(funds) # 1 THEN {"single_fund_count"} ELSE {})

\* the fetched entry of a fund the catalog knows
DataOf(name) == all_fetched_fund_data[available_funds[name]]

\* the series must reach from January of start_year to January of end_year
CoverageViolations(name) ==
    LET df == DataOf(name)
    IN  IF df.kind = "None" THEN {}
        ELSE IF DOMAIN df.Close = {} THEN {"no_data"}
        ELSE (IF Min(DOMAIN df.Close) > MonthsPerYear * params.start_year
              THEN {"data_starts_late"} ELSE {})
             \cup (IF Max(DOMAIN df.Close) < MonthsPerYear * params.end_year
                   THEN {"data_ends_early"} ELSE {})

Positions ==
    UNION {{<<a, b>> : b \in DOMAIN simulation_scenarios[a].funds} : a \in DOMAIN simulation_scenarios}

NameAt(x) == simulation_scenarios[x[1]].funds[x[2]].name

ReferencedNames == {NameAt(x) : x \in Positions}

\* the positions whose date check does not return
Uncovered == {x \in Positions : DataOf(NameAt(x)).kind = "None" \/ CoverageViolations(NameAt(x)) # {}}

AllViolations ==
    {<<"params", "", k>> : k \in ParamViolations}
    \cup UNION {{<<"scenario", ToString(a), k>> : k \in ScenarioViolations(simulation_scenarios[a])} :
                  a \in DOMAIN simulation_scenarios}
    \cup UNION {{<<"fund", n, k>> : k \in CoverageViolations(n)} : n \in ReferencedNames}

CoverageKinds == {"no_data", "data_starts_late", "data_ends_early"}
ParamKinds == {"start_after_end", "draw_rate_range", "inflation_range"}

\* what the raised error describes
Reported ==
    {IF exception.messages[k].kind \in ParamKinds
       THEN <<"params", "", exception.messages[k].kind>>
     ELSE IF exception.messages[k].kind \in CoverageKinds
       THEN <<"fund", exception.messages[k].subject, exception.messages[k].kind>>
     ELSE <<"scenario", ToString(exception.scenario), exception.messages[k].kind>> :
        k \in DOMAIN exception.messages}

ValidationFailed == pc = "raised" /\ exception.type = "ValueError"

\* C8 (as claimed): the error run_all_validations raises describes every
\* violation present in its inputs.
C8_EveryViolationReported ==
    ValidationFailed => AllViolations \subseteq Reported

\* C8 (amended): the error describes every violation of the first check that
\* fails, and only those: all parameter violations; else all structural
\* violations of the first invalid scenario; else the coverage violations of
\* the first fund, in scenario and fund order, whose date check fails.
C8_FirstFailingCheckReported ==
    ValidationFailed =>
        IF ParamViolations # {}
        THEN Reported = {<<"params", "", k>> : k \in ParamViolations}
        ELSE IF \E a \in DOMAIN simulation_scenarios : ScenarioViolations(simulation_scenarios[a]) # {}
        THEN LET a == Min({b \in DOMAIN simulation_scenarios :
                             ScenarioViolations(simulation_scenarios[b]) # {}})
             IN  Reported = {<<"scenario", ToString(a), k>> :
                               k \in ScenarioViolations(simulation_scenarios[a])}
        ELSE /\ Uncovered # {}
             /\ LET x == CHOOSE y \in Uncovered : \A z \in Uncovered : y = z \/ Before(y, z)
                IN  Reported = {<<"fund", NameAt(x), k>> : k \in CoverageViolations(NameAt(x))}

\* C8 witness: the second scenario was rejected with two violations while a
\* violation of a later check went unreported.
C8_Witness ==
    /\ RejectedAt(2)
    /\ Len(exception.messages) >= 2
    /\ \E v \in AllViolations : v[1] = "fund" /\ v \notin Reported

\* C9: run_all_validations checks the parameters first, then the scenarios
\* in list order (a failure carries the 1-based position of the failing
\* scenario), then date coverage once per distinct fund name; no simulation
\* starts in run_simulation unless every one of these checks has passed.
C9_ValidationOrder ==
    /\ pc \in {"validate_scenarios", "validate_dates", "validated",
               "simulate", "simulating", "simulated"} => ParamViolations = {}
    /\ pc = "validate_scenarios" =>
          \A a \in 1..(i - 1) : ScenarioViolations(simulation_scenarios[a]) = {}
    /\ pc \in {"validate_dates", "validated", "simulate", "simulating", "simulated"} =>
          \A a \in DOMAIN simulation_scenarios : ScenarioViolations(simulation_scenarios[a]) = {}
    /\ (ValidationFailed /\ exception.scenario # 0) =>
          /\ ParamViolations = {}
          /\ exception.scenario \in DOMAIN simulation_scenarios
          /\ \A a \in 1..(exception.scenario - 1) : ScenarioViolations(simulation_scenarios[a]) = {}
          /\ ScenarioViolations(simulation_scenarios[exception.scenario]) # {}
    /\ (pc = "raised" /\ exception.scenario = 0
            /\ (exception.type = "AttributeError" \/ Kinds(exception.messages) \subseteq CoverageKinds)
            /\ exception.type # "KeyError") =>
          /\ ParamViolations = {}
          /\ \A a \in DOMAIN simulation_scenarios : ScenarioViolations(simulation_scenarios[a]) = {}
    /\ \A n \in DOMAIN date_checks : date_checks[n] <= 1
    /\ pc \in {"validated", "simulate", "simulating", "simulated"} =>
          /\ exception = NoException
          /\ Uncovered = {}
          /\ \A n \in DOMAIN date_checks :
                date_checks[n] = (IF n \in ReferencedNames THEN 1 ELSE 0)

\* C9 witness: the second of two scenarios that both hold Apple is being
\* simulated; Apple's dates were checked once.
C9_Witness ==
    /\ pc = "simulating"
    /\ i = 2
    /\ \A a \in {1, 2} : \E b \in DOMAIN simulation_scenarios[a].funds :
          simulation_scenarios[a].funds[b].name = "Apple"
    /\ date_checks["Apple"] = 1

\* C10 (as claimed): a series validate_single_fund_date_range accepts is
\* non-empty, starts no later than start_year-01 and ends no earlier than
\* the last simulated month, end_year-12.
C10_CoversSimulatedRange ==
    \A n \in validated_funds :
        /\ DOMAIN DataOf(n).Close # {}
        /\ Min(DOMAIN DataOf(n).Close) <= MonthsPerYear * params.start_year
        /\ Max(DOMAIN DataOf(n).Close) >= MonthsPerYear * params.end_year + (MonthsPerYear - 1)

\* C10 (amended): a series validate_single_fund_date_range accepts is
\* non-empty, starts no later than start_year-01 and ends no earlier than
\* end_year-01 (January of the last simulated year).
C10_CoversUpToJanuary ==
    \A n \in validated_funds :
        /\ DataOf(n).kind = "DataFrame"
        /\ DOMAIN DataOf(n).Close # {}
        /\ Min(DOMAIN DataOf(n).Close) <= MonthsPerYear * params.start_year
        /\ Max(DOMAIN DataOf(n).Close) >= MonthsPerYear * params.end_year

\* C10 witness: an accepted series whose last entry is January of end_year.
C10_Witness ==
    /\ pc = "validated"
    /\ "Apple" \in validated_funds
    /\ Max(DOMAIN DataOf("Apple").Close) = MonthsPerYear * params.end_year

----------------------------------------------------------------------------
(* Claims about the output mapping (Spec) *)

\* The scenarios run_strategy_simulations has dealt with so far
Handled == IF pc = "simulated" THEN DOMAIN simulation_scenarios ELSE 1..(i - 1)

HandledKnown == {k \in Handled : KnownStrategy(simulation_scenarios[k].strategy_type)}

InEngine == pc \in {"simulate", "simulating", "simulated"}

\* C11: while run_strategy_simulations runs and when it has returned, the
\* mapping holds exactly one entry for each scenario of a known strategy
\* type it has dealt with, under the label built from the scenario's 1-based
\* position and its strategy type (as many labels as such scenarios, so none
\* collide); each entry is the complete result sequence of that scenario,
\* one row per simulated month, computed from that scenario alone; scenarios
\* of an unknown type have no entry and no exception ends the batch.
C11_OutputMapping ==
    InEngine =>
        /\ exception = NoException
        /\ DOMAIN simulation_outputs_to_plot =
              {scenario_name(k, simulation_scenarios[k]) : k \in HandledKnown}
        /\ Cardinality(DOMAIN simulation_outputs_to_plot) = Cardinality(HandledKnown)
        /\ \A k \in HandledKnown :
              LET result == simulation_outputs_to_plot[scenario_name(k, simulation_scenarios[k])]
              IN  /\ result = simulate(simulation_scenarios[k], all_fetched_fund_data, params)
                  /\ Len(result) = MonthsPerYear * (params.end_year - params.start_year + 1)
        /\ \A k \in Handled \ HandledKnown :
              \A label \in DOMAIN simulation_outputs_to_plot : label[1] # k

\* a returned batch of two scenarios: an unknown type first, a known one after it
C11_Witness ==
    /\ pc = "simulated"
    /\ Len(simulation_scenarios) = 2
    /\ ~KnownStrategy(simulation_scenarios[1].strategy_type)
    /\ KnownStrategy(simulation_scenarios[2].strategy_type)
    /\ DOMAIN simulation_outputs_to_plot = {scenario_name(2, simulation_scenarios[2])}
    /\ Len(simulation_outputs_to_plot[scenario_name(2, simulation_scenarios[2])]) >= MonthsPerYear

----------------------------------------------------------------------------
(* Claims about how a request fails (Spec) *)

\* Some fund of the request names a fund the catalog does not have
UnresolvableName == Unresolvable(simulation_scenarios) # {}

\* The fetch left no price data (None) for a ticker the request refers to
MissingPriceData ==
    /\ pc \notin {"prepare", "fetch"}
    /\ \E a \in DOMAIN simulation_scenarios : \E b \in DOMAIN simulation_scenarios[a].funds :
          LET fund == simulation_scenarios[a].funds[b]
          IN  /\ Resolvable(fund)
              /\ all_fetched_fund_data[available_funds[fund.name]] = NoneData

\* Some scenario breaks a structural rule of validate_scenario
StructuralError ==
    \/ UnresolvableName
    \/ MissingPriceData
    \/ \E a \in DOMAIN simulation_scenarios :
          validate_scenario(simulation_scenarios[a], available_funds, AllPresent) # <<>>

\* C12: a request with a scenario structural error (an unresolvable fund
\* name, a referenced ticker without fetched price data, or any violation
\* validate_scenario looks for) never reaches the strategy engine, and when
\* it fails it fails with a ValueError (which the route answers with 400).
C12_StructuralErrorIsValueError ==
    StructuralError =>
        /\ ~InEngine
        /\ pc = "raised" => exception.type = "ValueError"

\* run_all_validations has returned normally
ValidationPassed == pc = "validated" \/ InEngine

\* C13: once run_all_validations has returned normally, every scenario of
\* the batch has one of the two known strategy types, and when
\* run_strategy_simulations has returned every scenario has its entry in
\* the output mapping (the skip branch was not taken).
C13_TaxonomyClosedAtValidation ==
    /\ ValidationPassed =>
          \A k \in DOMAIN simulation_scenarios :
              KnownStrategy(simulation_scenarios[k].strategy_type)
    /\ pc = "simulated" =>
          \A k \in DOMAIN simulation_scenarios :
              scenario_name(k, simulation_scenarios[k]) \in DOMAIN simulation_outputs_to_plot

----------------------------------------------------------------------------
(* Claims about the figures of a row (SpecEngine) *)

\* The holding allocation k had when the last row's month began
StartingHolding(k) == holdings_at_month_start[scenario.funds[k].name]

SumOfStartingHoldings ==
    RSumSeq([k \in DOMAIN scenario.funds |-> StartingHolding(k)])

\* sum of starting_holding x return over the allocations
WeightedReturns ==
    RSumSeq([k \in DOMAIN scenario.funds |->
                RMul(StartingHolding(k), monthly_return_at(CloseOf(k), RowMonth(Len(rows))))])

WeightsSumToOne(s) ==
    s.strategy_type = Rebalancing => SumOfWeights(s.funds) = One

\* C14 (as claimed): for an accepted scenario whose weights sum to exactly 1
\* (fund names may repeat), the figures of a row reconcile: the first row
\* starts with initial_corpus; corpus_after_growth is starting_corpus x
\* (1 + monthly_return); and for Rebalancing the starting_corpus is the sum
\* of the allocations' holdings at month start and monthly_return is the
\* average of the funds' returns weighted by those holdings (0.0 when the
\* starting corpus is zero).
C14_RowFiguresReconcile ==
    (pc = "simulating" /\ rows # <<>> /\ WeightsSumToOne(scenario)) =>
        /\ rows[1].StartingCorpus = params.initial_corpus
        /\ LastRow.CorpusAfterGrowth =
              RMul(LastRow.StartingCorpus, RAdd(One, LastRow.MonthlyReturn))
        /\ scenario.strategy_type = Rebalancing =>
              /\ LastRow.StartingCorpus = SumOfStartingHoldings
              /\ LastRow.MonthlyReturn =
                    IF LastRow.StartingCorpus = Zero
                    THEN Zero
                    ELSE RDiv(WeightedReturns, SumOfStartingHoldings)

====
